---- MODULE Spec2Model ----
(***************************************************************************)
(* Scheduled-delivery subsystem of backend/src/server.ts: the lowdb store  *)
(* (db.json and the in-memory db.data), the scheduledJobs timer map, the   *)
(* node-schedule job callback, the token helpers, the create and cancel    *)
(* HTTP handlers, and reloadSchedules at process start.                    *)
(*                                                                         *)
(* Every `await` of the source is a point where other callbacks may run.   *)
(* An action is one synchronous run of a handler: from the completion of   *)
(* the await it was suspended on up to the next await it reaches.          *)
(*   await db.read()  completes by replacing db.data with the file content *)
(*   await saveDB()   serialises db.data when called; the file is replaced *)
(*                    later, writes land in call order, and the caller     *)
(*                    resumes when its own write has landed                *)
(* Time is counted in seconds; Date.now() is now * MsPerSecond.            *)
(***************************************************************************)
EXTENDS Integers, Sequences, FiniteSets, TLC

\* ---------------------------------------------------------------- bounds
MaxMsgs == 2
MaxTime == 1
MaxRestarts == 1
MaxCancels == 1
\* isTokenExpired on its own: the largest expires_in and the last second tried
MaxExpiresIn == 2
MaxSeconds == 2

MsPerSecond == 1000

MsgIds == 1..MaxMsgs
\* the sendAt values requests carry
SendTimes == 1..MaxTime
Tenants == {"T1", "T2"}
CancelSlots == 1..MaxCancels

\* ---------------------------------------------------------------- types
\* expires_in?: number, left unset
Undefined == -1

\* interface Token; access_token = 0 stands for "no record for this tenant",
\* refresh_token = 0 and expires_in = 0 for an absent (falsy) field.
NoToken == [access_token |-> 0, refresh_token |-> 0, expires_in |-> 0, obtained_at |-> 0]

\* const defaultData: Data = { tokens: {}, scheduledMessages: [] }
defaultData == [tokens |-> [u \in Tenants |-> NoToken], scheduledMessages |-> <<>>]

\* An absent entry of scheduledJobs; a present one is a node-schedule Job:
\* its date, the smsg its callback closes over, and whether its one
\* invocation is still pending (not yet run and not cancelled).  orphans
\* counts the earlier jobs of the same message that scheduledJobs.set has
\* replaced in the map while their invocation was pending: node-schedule
\* still runs them.
NoJob == [present |-> FALSE, date |-> 0, userId |-> "T1", pending |-> FALSE, orphans |-> 0]

\* tok: the local `token` of refreshAccessToken, then its newToken;
\* exch: the refresh exchanges the running call of getValidAccessToken has
\* submitted; bearer: the access token slackRequest sends with (0: none)
IdleFire == [pc |-> "idle", tok |-> NoToken, err |-> "none", exch |-> 0, bearer |-> 0]
IdleCreate == [pc |-> "idle", userId |-> "T1", sendAt |-> 0, future |-> FALSE]
IdleCancel == [pc |-> "idle", id |-> 1, userId |-> "T1", res |-> "none"]

VARIABLES
  now,            \* the wall clock, in seconds
  restarts,       \* process restarts so far
  file,           \* db.json: the persisted Data
  data,           \* db.data: the in-memory Data of the running process
  writeQ,         \* db.write() calls whose file replacement has not landed yet
  scheduledJobs,  \* const scheduledJobs = new Map<string, schedule.Job>()
  mainPc,         \* position of the startup function
  fire,           \* per message: position of its job callback
  create,         \* per message id: position of the POST /schedule-message handler
  cancel,         \* per request slot: position of the DELETE handler
  nextTok,        \* provider side: the next access/refresh token it will issue
  sends,          \* provider side: per message, the times chat.postMessage was submitted
  cancelOk,       \* per message: a cancel that found it scheduled was acknowledged
  missed,         \* per message: reloadSchedules marked it missed; sends seen by then, else -1
  startedAt,      \* the time the running process was started
  expiry          \* a call of isTokenExpired on its own: token, Date.now(), result

vars == <<now, restarts, file, data, writeQ, scheduledJobs, mainPc, fire, create,
          cancel, nextTok, sends, cancelOk, missed, startedAt, expiry>>

mem == <<data, scheduledJobs, mainPc, fire, create, cancel>>
ghost == <<sends, cancelOk, missed, startedAt, expiry>>
provider == <<nextTok>>

\* ---------------------------------------------------------------- helpers
\* Date.now()
DateNow(t) == t * MsPerSecond

\* !x for an optional number: unset or 0
Falsy(x) == x = Undefined \/ x = 0

\* function isTokenExpired(token), with Date.now() passed in
isTokenExpired(token, nowMs) ==
  IF Falsy(token.expires_in) THEN FALSE
  ELSE (nowMs - token.obtained_at) >= token.expires_in * MsPerSecond

\* scheduledMessages.find((m) => m.id === id): the index, 0 when not found
FindIdx(msgs, id) ==
  IF \E k \in 1..Len(msgs) : msgs[k].id = id
  THEN CHOOSE k \in 1..Len(msgs) : msgs[k].id = id /\ \A j \in 1..(k-1) : msgs[j].id # id
  ELSE 0

\* found.status = ...; found.error = ...
SetStatus(d, id, st, err) ==
  LET k == FindIdx(d.scheduledMessages, id) IN
  IF k = 0 THEN d
  ELSE [d EXCEPT !.scheduledMessages[k].status = st, !.scheduledMessages[k].error = err]

\* await saveDB(): db.write() serialises db.data now, the file is replaced later
Enqueue(q, owner, d) == Append(q, [owner |-> owner, snap |-> d])

\* the caller of saveDB resumes when its write, the oldest outstanding one, lands
Landing(owner) == Len(writeQ) > 0 /\ Head(writeQ).owner = owner

\* the persisted record of a message, for the properties
Persisted(id) ==
  LET k == FindIdx(file.scheduledMessages, id) IN
  IF k = 0 THEN [id |-> id, userId |-> "T1", sendAt |-> 0, status |-> "absent", error |-> "none"]
  ELSE file.scheduledMessages[k]

Terminal(st) == st \in {"sent", "canceled", "failed"}

\* ---------------------------------------------------------------- Init
\* Credentials are stored by the OAuth callback before any message exists.
InitTokens ==
  { [access_token |-> 1, refresh_token |-> 0, expires_in |-> 0, obtained_at |-> 0],
    [access_token |-> 1, refresh_token |-> 0, expires_in |-> 1, obtained_at |-> 0],
    [access_token |-> 1, refresh_token |-> 1, expires_in |-> 1, obtained_at |-> 0] }

\* no call of isTokenExpired on its own is looked at
IdleExpiry == [token |-> NoToken, nowMs |-> 0, called |-> FALSE, result |-> FALSE]

InitStore ==
  /\ now = 0
  /\ restarts = 0
  /\ \E t1 \in InitTokens :
       file = [tokens |-> [u \in Tenants |-> IF u = "T1" THEN t1 ELSE NoToken],
               scheduledMessages |-> <<>>]
  /\ data = defaultData
  /\ writeQ = <<>>
  /\ scheduledJobs = [i \in MsgIds |-> NoJob]
  /\ mainPc = "startRead"
  /\ fire = [i \in MsgIds |-> IdleFire]
  /\ create = [i \in MsgIds |-> IdleCreate]
  /\ cancel = [s \in CancelSlots |-> IdleCancel]
  /\ nextTok = 2
  /\ sends = [i \in MsgIds |-> <<>>]
  /\ cancelOk = [i \in MsgIds |-> FALSE]
  /\ missed = [i \in MsgIds |-> -1]
  /\ startedAt = 0

Init == InitStore /\ expiry = IdleExpiry

\* ---------------------------------------------------------------- environment
\* the clock advances
Tick ==
  /\ now < MaxTime
  /\ now' = now + 1
  /\ UNCHANGED <<restarts, file, writeQ, mem, provider, ghost>>

\* The process dies and is started again: everything in memory is gone
\* (db.data, the timer map, every handler and callback, the writes that
\* had not landed); the file, the clock and the provider stay.
Restart ==
  /\ restarts < MaxRestarts
  /\ restarts' = restarts + 1
  /\ data' = defaultData
  /\ writeQ' = <<>>
  /\ scheduledJobs' = [i \in MsgIds |-> NoJob]
  /\ mainPc' = "startRead"
  /\ fire' = [i \in MsgIds |-> IdleFire]
  /\ create' = [i \in MsgIds |-> IF create[i].pc = "idle" THEN IdleCreate
                                  ELSE [IdleCreate EXCEPT !.pc = "gone"]]
  /\ cancel' = [s \in CancelSlots |-> IdleCancel]
  /\ startedAt' = now
  /\ UNCHANGED <<now, file, provider, sends, cancelOk, missed, expiry>>

\* ---------------------------------------------------------------- scheduling
\* async function scheduleSend(smsg), lines 162-165 and 192: the timer map
\* after the call, `clock` being what new Date() returns inside it
scheduleSend(jobs, smsg, clock) ==
  IF smsg.sendAt <= clock THEN jobs
  ELSE [jobs EXCEPT ![smsg.id] =
          [present |-> TRUE, date |-> smsg.sendAt, userId |-> smsg.userId, pending |-> TRUE,
           orphans |-> IF jobs[smsg.id].present /\ jobs[smsg.id].pending
                       THEN jobs[smsg.id].orphans + 1 ELSE jobs[smsg.id].orphans]]

\* The clock may advance once while the loop of reloadSchedules runs: the
\* n-th new Date() of the loop returns now + 1 from the tickAt-th on (the
\* k-th record's line 199 is the (2k-1)-th, its line 164 the 2k-th; a
\* tickAt past the last one is a loop during which the clock stands).
ClockAt(n, tickAt) == IF n >= tickAt THEN now + 1 ELSE now

\* variant of InFuture: >= in place of >
InFutureOrNow(m, k, tickAt) == m.sendAt >= ClockAt(2 * k - 1, tickAt)

\* reloadSchedules, line 199: new Date(m.sendAt) > new Date(), for the k-th record
InFuture(m, k, tickAt) == m.sendAt > ClockAt(2 * k - 1, tickAt)

\* reloadSchedules, lines 198-205, on the timer map: the records from the k-th on
RECURSIVE ReloadJobs(_, _, _, _)
ReloadJobs(msgs, k, jobs, tickAt) ==
  IF k > Len(msgs) THEN jobs
  ELSE LET m == msgs[k] IN
       IF m.status = "scheduled" /\ InFuture(m, k, tickAt)
       THEN ReloadJobs(msgs, k + 1, scheduleSend(jobs, m, ClockAt(2 * k, tickAt)), tickAt)
       ELSE ReloadJobs(msgs, k + 1, jobs, tickAt)

\* reloadSchedules, lines 201-204, on the records
ReloadMark(msgs, tickAt) ==
  [k \in DOMAIN msgs |->
     IF msgs[k].status = "scheduled" /\ ~InFuture(msgs[k], k, tickAt)
     THEN [msgs[k] EXCEPT !.status = "failed", !.error = "Missed scheduled time"]
     ELSE msgs[k]]

\* startup, line 356: await db.read() completes
StartRead ==
  /\ mainPc = "startRead"
  /\ data' = file
  /\ mainPc' = "reloadRead"
  /\ UNCHANGED <<now, restarts, file, writeQ, scheduledJobs, fire, create, cancel,
                 provider, ghost>>

\* reloadSchedules, lines 196-206: db.read() completes, the loop runs, saveDB is called
ReloadRun(tickAt) ==
  /\ mainPc = "reloadRead"
  /\ tickAt <= 2 * Len(file.scheduledMessages) + 1
  /\ tickAt <= 2 * Len(file.scheduledMessages) => now < MaxTime
  /\ LET msgs == file.scheduledMessages
         marked == [file EXCEPT !.scheduledMessages = ReloadMark(msgs, tickAt)]
     IN /\ data' = marked
        /\ scheduledJobs' = ReloadJobs(msgs, 1, scheduledJobs, tickAt)
        /\ writeQ' = Enqueue(writeQ, <<"main", 0>>, marked)
        /\ missed' = [i \in MsgIds |->
                        IF \E k \in DOMAIN msgs : /\ msgs[k].id = i
                                                  /\ msgs[k].status = "scheduled"
                                                  /\ ~InFuture(msgs[k], k, tickAt)
                        THEN Len(sends[i]) ELSE missed[i]]
        /\ now' = IF tickAt <= 2 * Len(msgs) THEN now + 1 ELSE now
  /\ mainPc' = "reloadWrite"
  /\ UNCHANGED <<restarts, file, fire, create, cancel, provider, sends, cancelOk,
                 startedAt, expiry>>

\* reloadSchedules returns (its write has landed); startup, line 359: app.listen
ReloadDone ==
  /\ mainPc = "reloadWrite"
  /\ Landing(<<"main", 0>>)
  /\ file' = Head(writeQ).snap
  /\ writeQ' = Tail(writeQ)
  /\ mainPc' = "listening"
  /\ UNCHANGED <<now, restarts, data, scheduledJobs, fire, create, cancel, provider, ghost>>

\* ---------------------------------------------------------------- POST /schedule-message
\* a fresh nanoid: the first id no request has taken
NextId == CHOOSE i \in MsgIds : create[i].pc = "idle" /\ \A j \in 1..(i-1) : create[j].pc # "idle"

\* the record built at lines 311-319
NewMessage(i, u, t) ==
  [id |-> i, userId |-> u, sendAt |-> t, status |-> "scheduled", error |-> "none"]

\* lines 307-323: the request arrives, sm is built, db.read() completes,
\* push(sm), saveDB is called.  `future` keeps whether sendAt was in the
\* future when the request was handled.
CreateRun(u, t) ==
  /\ mainPc = "listening"
  /\ \E i \in MsgIds : create[i].pc = "idle"
  /\ LET d == [file EXCEPT !.scheduledMessages = Append(@, NewMessage(NextId, u, t))]
     IN /\ data' = d
        /\ writeQ' = Enqueue(writeQ, <<"create", NextId>>, d)
  /\ create' = [create EXCEPT ![NextId] =
                  [pc |-> "write", userId |-> u, sendAt |-> t, future |-> (t > now)]]
  /\ UNCHANGED <<now, restarts, file, scheduledJobs, mainPc, fire, cancel, provider, ghost>>

\* lines 323-326: the write has landed, scheduleSend(sm), the id is acknowledged
CreateDone(i) ==
  /\ create[i].pc = "write"
  /\ Landing(<<"create", i>>)
  /\ file' = Head(writeQ).snap
  /\ writeQ' = Tail(writeQ)
  /\ scheduledJobs' = scheduleSend(scheduledJobs,
                                   NewMessage(i, create[i].userId, create[i].sendAt), now)
  /\ create' = [create EXCEPT ![i] = [IdleCreate EXCEPT !.pc = "done", !.future = create[i].future]]
  /\ UNCHANGED <<now, restarts, data, mainPc, fire, cancel, provider, ghost>>

\* ---------------------------------------------------------------- DELETE /scheduled-messages/:id
\* variant of FindOwned: the tenant is not compared
FindAnyOwner(msgs, id, u) ==
  IF \E k \in 1..Len(msgs) : msgs[k].id = id
  THEN CHOOSE k \in 1..Len(msgs) : msgs[k].id = id /\ \A j \in 1..(k-1) : msgs[j].id # id
  ELSE 0

\* line 341: find((m) => m.id === id && m.userId === userId): the index, 0 when not found
FindOwned(msgs, id, u) ==
  IF \E k \in 1..Len(msgs) : msgs[k].id = id /\ msgs[k].userId = u
  THEN CHOOSE k \in 1..Len(msgs) :
         /\ msgs[k].id = id /\ msgs[k].userId = u
         /\ \A j \in 1..(k-1) : ~(msgs[j].id = id /\ msgs[j].userId = u)
  ELSE 0

\* line 346: job.cancel() withdraws the pending invocation; the map keeps the entry
JobCancel(jobs, id) ==
  IF jobs[id].present THEN [jobs EXCEPT ![id].pending = FALSE] ELSE jobs

\* variant of IsScheduled: the status is not looked at
IsAnyStatus(m) == TRUE

\* line 344: msg.status === "scheduled"
IsScheduled(m) == m.status = "scheduled"

\* a request can be taken by a slot that is not awaiting its write
CancelArrives(s) == mainPc = "listening" /\ cancel[s].pc # "write"

\* lines 336-342: the request arrives, db.read() completes, no record of
\* this id for this tenant: 404
CancelNotFound(s, id, u) ==
  /\ CancelArrives(s)
  /\ FindOwned(file.scheduledMessages, id, u) = 0
  /\ data' = file
  /\ cancel' = [cancel EXCEPT ![s] = [pc |-> "done", id |-> id, userId |-> u, res |-> "notfound"]]
  /\ UNCHANGED <<now, restarts, file, writeQ, scheduledJobs, mainPc, fire, create,
                 provider, ghost>>

\* lines 344-347 on the record found
CancelUpdate(d, k) == [d EXCEPT !.scheduledMessages[k].status = "canceled"]

\* lines 336-348: the request arrives, db.read() completes, the record is
\* scheduled: the job is cancelled, the status set, saveDB is called
CancelScheduled(s, id, u) ==
  /\ CancelArrives(s)
  /\ LET k == FindOwned(file.scheduledMessages, id, u) IN
     /\ k # 0
     /\ IsScheduled(file.scheduledMessages[k])
     /\ data' = CancelUpdate(file, k)
     /\ writeQ' = Enqueue(writeQ, <<"cancel", s>>, CancelUpdate(file, k))
  /\ scheduledJobs' = JobCancel(scheduledJobs, id)
  /\ cancel' = [cancel EXCEPT ![s] = [pc |-> "write", id |-> id, userId |-> u, res |-> "none"]]
  /\ UNCHANGED <<now, restarts, file, mainPc, fire, create, provider, ghost>>

\* lines 336-351: the request arrives, db.read() completes, the record is
\* not scheduled: { ok: true }
CancelNoop(s, id, u) ==
  /\ CancelArrives(s)
  /\ LET k == FindOwned(file.scheduledMessages, id, u) IN
     /\ k # 0
     /\ ~IsScheduled(file.scheduledMessages[k])
  /\ data' = file
  /\ cancel' = [cancel EXCEPT ![s] = [pc |-> "done", id |-> id, userId |-> u, res |-> "ok"]]
  /\ UNCHANGED <<now, restarts, file, writeQ, scheduledJobs, mainPc, fire, create,
                 provider, ghost>>

\* lines 348-351: the write has landed: { ok: true }
CancelDone(s) ==
  /\ cancel[s].pc = "write"
  /\ Landing(<<"cancel", s>>)
  /\ file' = Head(writeQ).snap
  /\ writeQ' = Tail(writeQ)
  /\ cancel' = [cancel EXCEPT ![s].pc = "done", ![s].res = "ok"]
  /\ cancelOk' = [cancelOk EXCEPT ![cancel[s].id] = TRUE]
  /\ UNCHANGED <<now, restarts, data, scheduledJobs, mainPc, fire, create, provider,
                 sends, missed, startedAt, expiry>>

\* ---------------------------------------------------------------- the job callback
\* node-schedule runs the job's one invocation at or after its date; the
\* callback starts: slackRequest, getValidAccessToken, line 126 awaits db.read()
TimerFire(i) ==
  /\ scheduledJobs[i].present /\ scheduledJobs[i].pending
  /\ now >= scheduledJobs[i].date
  /\ fire[i].pc \in {"idle", "done"}
  /\ scheduledJobs' = [scheduledJobs EXCEPT ![i].pending = FALSE]
  /\ fire' = [fire EXCEPT ![i] = [IdleFire EXCEPT !.pc = "tokRead"]]
  /\ UNCHANGED <<now, restarts, file, data, writeQ, mainPc, create, cancel, provider, ghost>>

\* the tenant the callback's smsg names
Owner(i) == scheduledJobs[i].userId

\* getValidAccessToken, lines 126-128: no record; slackRequest, line 139, throws;
\* the catch branch, line 182, awaits db.read()
FireNoToken(i) ==
  /\ fire[i].pc = "tokRead"
  /\ file.tokens[Owner(i)].access_token = 0
  /\ data' = file
  /\ fire' = [fire EXCEPT ![i].pc = "errRead", ![i].err = "No valid token"]
  /\ UNCHANGED <<now, restarts, file, writeQ, scheduledJobs, mainPc, create, cancel,
                 provider, ghost>>

\* variant of NeedsRefresh: the refresh token is not looked at
NeedsRefreshIfExpired(token, clock) == isTokenExpired(token, DateNow(clock))

\* getValidAccessToken, line 130
NeedsRefresh(token, clock) == isTokenExpired(token, DateNow(clock)) /\ token.refresh_token # 0

\* getValidAccessToken, lines 130-131: expired with a refresh token;
\* refreshAccessToken, line 84, awaits db.read()
FireNeedRefresh(i) ==
  /\ fire[i].pc = "tokRead"
  /\ file.tokens[Owner(i)].access_token # 0
  /\ NeedsRefresh(file.tokens[Owner(i)], now)
  /\ data' = file
  /\ fire' = [fire EXCEPT ![i].pc = "refRead"]
  /\ UNCHANGED <<now, restarts, file, writeQ, scheduledJobs, mainPc, create, cancel,
                 provider, ghost>>

\* getValidAccessToken, line 134, returns token.access_token; slackRequest,
\* line 152, submits chat.postMessage
FireTokenPost(i) ==
  /\ fire[i].pc = "tokRead"
  /\ file.tokens[Owner(i)].access_token # 0
  /\ ~NeedsRefresh(file.tokens[Owner(i)], now)
  /\ data' = file
  /\ fire' = [fire EXCEPT ![i].pc = "post",
                           ![i].bearer = file.tokens[Owner(i)].access_token]
  /\ sends' = [sends EXCEPT ![i] = Append(@, now)]
  /\ UNCHANGED <<now, restarts, file, writeQ, scheduledJobs, mainPc, create, cancel,
                 provider, cancelOk, missed, startedAt, expiry>>

\* refreshAccessToken, lines 84-96: db.read() completes; without a refresh
\* token it returns null (slackRequest throws), else the exchange is submitted
FireRefRead(i) ==
  /\ fire[i].pc = "refRead"
  /\ data' = file
  /\ LET token == file.tokens[Owner(i)] IN
     IF token.access_token = 0 \/ token.refresh_token = 0
     THEN fire' = [fire EXCEPT ![i].pc = "errRead", ![i].err = "No valid token"]
     ELSE fire' = [fire EXCEPT ![i].pc = "refPost", ![i].tok = token,
                               ![i].exch = @ + 1]
  /\ UNCHANGED <<now, restarts, file, writeQ, scheduledJobs, mainPc, create, cancel,
                 provider, ghost>>

\* Whether the provider's answer carries a refresh_token of its own: with
\* token rotation every exchange issues a new one.
Rotations == {TRUE}

\* variant of NewToken: obtained_at is carried over from the old token
NewTokenKeepsTime(token, rotated, clock) ==
  [access_token |-> nextTok,
   refresh_token |-> IF rotated THEN nextTok ELSE token.refresh_token,
   expires_in |-> token.expires_in,
   obtained_at |-> token.obtained_at]

\* refreshAccessToken, lines 101-110: newToken, `rotated` telling whether the
\* answer carries a refresh_token of its own
NewToken(token, rotated, clock) ==
  [access_token |-> nextTok,
   refresh_token |-> IF rotated THEN nextTok ELSE token.refresh_token,
   expires_in |-> token.expires_in,
   obtained_at |-> DateNow(clock)]

\* refreshAccessToken, lines 100-112: the provider answers ok; the new token
\* is stored in db.data and saveDB is called
FireRefOk(i, rotated) ==
  /\ fire[i].pc = "refPost"
  /\ LET newToken == NewToken(fire[i].tok, rotated, now)
         d == [data EXCEPT !.tokens[Owner(i)] = newToken]
     IN /\ data' = d
        /\ writeQ' = Enqueue(writeQ, <<"fire", i>>, d)
        /\ fire' = [fire EXCEPT ![i].pc = "refWrite", ![i].tok = newToken]
  /\ nextTok' = nextTok + 1
  /\ UNCHANGED <<now, restarts, file, scheduledJobs, mainPc, create, cancel, ghost>>

\* variant of FireRefFail: the credential that could not be refreshed is dropped
FireRefFailDrops(i) ==
  /\ fire[i].pc = "refPost"
  /\ data' = [data EXCEPT !.tokens[Owner(i)] = NoToken]
  /\ fire' = [fire EXCEPT ![i].pc = "errRead", ![i].tok = NoToken, ![i].exch = 0,
                           ![i].err = "No valid token"]
  /\ UNCHANGED <<now, restarts, file, writeQ, scheduledJobs, mainPc, create, cancel,
                 provider, ghost>>

\* refreshAccessToken, lines 115-121: not ok, or the request threw: null;
\* getValidAccessToken returns null, slackRequest throws, line 182 awaits db.read()
FireRefFail(i) ==
  /\ fire[i].pc = "refPost"
  /\ fire' = [fire EXCEPT ![i].pc = "errRead", ![i].tok = NoToken, ![i].exch = 0,
                           ![i].err = "No valid token"]
  /\ UNCHANGED <<now, restarts, file, data, writeQ, scheduledJobs, mainPc, create, cancel,
                 provider, ghost>>

\* refreshAccessToken, lines 112-114: the write has landed, newToken is
\* returned; slackRequest, line 152, submits chat.postMessage
FireRefSaved(i) ==
  /\ fire[i].pc = "refWrite"
  /\ Landing(<<"fire", i>>)
  /\ file' = Head(writeQ).snap
  /\ writeQ' = Tail(writeQ)
  /\ fire' = [fire EXCEPT ![i].pc = "post", ![i].tok = NoToken, ![i].exch = 0,
                           ![i].bearer = fire[i].tok.access_token]
  /\ sends' = [sends EXCEPT ![i] = Append(@, now)]
  /\ UNCHANGED <<now, restarts, data, scheduledJobs, mainPc, create, cancel, provider,
                 cancelOk, missed, startedAt, expiry>>

\* slackRequest, lines 152-154: the provider answers ok; line 172 awaits db.read()
FirePostOk(i) ==
  /\ fire[i].pc = "post"
  /\ fire' = [fire EXCEPT ![i].pc = "okRead", ![i].bearer = 0]
  /\ UNCHANGED <<now, restarts, file, data, writeQ, scheduledJobs, mainPc, create, cancel,
                 provider, sends, cancelOk, missed, startedAt, expiry>>

\* slackRequest, lines 153 and 156-157: not ok, or the request threw; the
\* catch branch, line 182, awaits db.read()
FirePostFail(i) ==
  /\ fire[i].pc = "post"
  /\ fire' = [fire EXCEPT ![i].pc = "errRead", ![i].bearer = 0, ![i].err = "provider error"]
  /\ UNCHANGED <<now, restarts, file, data, writeQ, scheduledJobs, mainPc, create, cancel,
                 provider, ghost>>

\* scheduledJobs.delete(id); jobs the map no longer held stay with node-schedule
JobDelete(jobs, id) ==
  IF jobs[id].orphans = 0 THEN [jobs EXCEPT ![id] = NoJob]
  ELSE [jobs EXCEPT ![id].present = FALSE, ![id].pending = FALSE]

\* lines 172-179, the status written after a successful send
SentUpdate(d, id) == SetStatus(d, id, "sent", "none")

\* lines 182-188, the status written after a failed send
FailedUpdate(d, id, err) == SetStatus(d, id, "failed", err)

\* lines 172-177: db.read() completes, the record is set to sent, saveDB is
\* called; without a record, line 179 is reached at once
FireOkRead(i) ==
  /\ fire[i].pc = "okRead"
  /\ IF FindIdx(file.scheduledMessages, i) # 0
     THEN /\ data' = SentUpdate(file, i)
          /\ writeQ' = Enqueue(writeQ, <<"fire", i>>, SentUpdate(file, i))
          /\ fire' = [fire EXCEPT ![i].pc = "okWrite"]
          /\ scheduledJobs' = scheduledJobs
     ELSE /\ data' = file
          /\ writeQ' = writeQ
          /\ fire' = [fire EXCEPT ![i].pc = "done"]
          /\ scheduledJobs' = JobDelete(scheduledJobs, i)
  /\ UNCHANGED <<now, restarts, file, mainPc, create, cancel, provider, ghost>>

\* lines 177-179: the write has landed; scheduledJobs.delete(smsg.id)
FireOkDone(i) ==
  /\ fire[i].pc = "okWrite"
  /\ Landing(<<"fire", i>>)
  /\ file' = Head(writeQ).snap
  /\ writeQ' = Tail(writeQ)
  /\ scheduledJobs' = JobDelete(scheduledJobs, i)
  /\ fire' = [fire EXCEPT ![i].pc = "done"]
  /\ UNCHANGED <<now, restarts, data, mainPc, create, cancel, provider, ghost>>

\* variant of CatchJobs: a failed send is tried again
CatchJobsRetry(jobs, id) == [jobs EXCEPT ![id].pending = TRUE]

\* the timer map when the catch branch ends, lines 180-189
CatchJobs(jobs, id) == jobs

\* lines 182-187: db.read() completes, the record is set to failed with the
\* error's message, saveDB is called
FireErrRead(i) ==
  /\ fire[i].pc = "errRead"
  /\ IF FindIdx(file.scheduledMessages, i) # 0
     THEN /\ data' = FailedUpdate(file, i, fire[i].err)
          /\ writeQ' = Enqueue(writeQ, <<"fire", i>>, FailedUpdate(file, i, fire[i].err))
          /\ fire' = [fire EXCEPT ![i].pc = "errWrite"]
          /\ scheduledJobs' = scheduledJobs
     ELSE /\ data' = file
          /\ writeQ' = writeQ
          /\ fire' = [fire EXCEPT ![i].pc = "done"]
          /\ scheduledJobs' = CatchJobs(scheduledJobs, i)
  /\ UNCHANGED <<now, restarts, file, mainPc, create, cancel, provider, ghost>>

\* lines 187-189: the write has landed; the catch branch ends
FireErrDone(i) ==
  /\ fire[i].pc = "errWrite"
  /\ Landing(<<"fire", i>>)
  /\ file' = Head(writeQ).snap
  /\ writeQ' = Tail(writeQ)
  /\ scheduledJobs' = CatchJobs(scheduledJobs, i)
  /\ fire' = [fire EXCEPT ![i].pc = "done"]
  /\ UNCHANGED <<now, restarts, data, mainPc, create, cancel, provider, ghost>>

\* ---------------------------------------------------------------- specification
Next ==
  \/ Tick
  \/ Restart
  \/ StartRead
  \/ \E n \in 1..(2 * MaxMsgs + 1) : ReloadRun(n)
  \/ ReloadDone
  \/ \E u \in Tenants, t \in SendTimes : CreateRun(u, t)
  \/ \E i \in MsgIds : CreateDone(i)
  \/ \E s \in CancelSlots, i \in MsgIds, u \in Tenants : CancelNotFound(s, i, u)
  \/ \E s \in CancelSlots, i \in MsgIds, u \in Tenants : CancelScheduled(s, i, u)
  \/ \E s \in CancelSlots, i \in MsgIds, u \in Tenants : CancelNoop(s, i, u)
  \/ \E s \in CancelSlots : CancelDone(s)
  \/ \E i \in MsgIds : TimerFire(i)
  \/ \E i \in MsgIds : FireNoToken(i)
  \/ \E i \in MsgIds : FireNeedRefresh(i)
  \/ \E i \in MsgIds : FireTokenPost(i)
  \/ \E i \in MsgIds : FireRefRead(i)
  \/ \E i \in MsgIds, r \in Rotations : FireRefOk(i, r)
  \/ \E i \in MsgIds : FireRefFail(i)
  \/ \E i \in MsgIds : FireRefSaved(i)
  \/ \E i \in MsgIds : FirePostOk(i)
  \/ \E i \in MsgIds : FirePostFail(i)
  \/ \E i \in MsgIds : FireOkRead(i)
  \/ \E i \in MsgIds : FireOkDone(i)
  \/ \E i \in MsgIds : FireErrRead(i)
  \/ \E i \in MsgIds : FireErrDone(i)

Spec == Init /\ [][Next]_vars

\* ---------------------------------------------------------------- reloadSchedules run again
\* reloadSchedules, lines 196-206, called once more by the serving process:
\* db.read() completes, the loop runs, saveDB is called
ReloadAgain ==
  /\ mainPc = "listening"
  /\ LET msgs == file.scheduledMessages
         tickAt == 2 * Len(msgs) + 1
         marked == [file EXCEPT !.scheduledMessages = ReloadMark(msgs, tickAt)]
     IN /\ data' = marked
        /\ scheduledJobs' = ReloadJobs(msgs, 1, scheduledJobs, tickAt)
        /\ writeQ' = Enqueue(writeQ, <<"main", 1>>, marked)
  /\ mainPc' = "reloadAgainWrite"
  /\ UNCHANGED <<now, restarts, file, fire, create, cancel, provider, ghost>>

\* the second run returns: its write has landed
ReloadAgainDone ==
  /\ mainPc = "reloadAgainWrite"
  /\ Landing(<<"main", 1>>)
  /\ file' = Head(writeQ).snap
  /\ writeQ' = Tail(writeQ)
  /\ mainPc' = "reloaded"
  /\ UNCHANGED <<now, restarts, data, scheduledJobs, fire, create, cancel, provider, ghost>>

\* node-schedule runs a job that the map no longer holds: the same callback
OrphanFire(i) ==
  /\ scheduledJobs[i].orphans > 0
  /\ now >= scheduledJobs[i].date
  /\ fire[i].pc \in {"idle", "done"}
  /\ scheduledJobs' = [scheduledJobs EXCEPT ![i].orphans = @ - 1]
  /\ fire' = [fire EXCEPT ![i] = [IdleFire EXCEPT !.pc = "tokRead"]]
  /\ UNCHANGED <<now, restarts, file, data, writeQ, mainPc, create, cancel, provider, ghost>>

ReloadTwiceNext ==
  \/ Tick
  \/ StartRead
  \/ \E n \in 1..(2 * MaxMsgs + 1) : ReloadRun(n)
  \/ ReloadDone
  \/ \E u \in Tenants, t \in SendTimes : CreateRun(u, t)
  \/ \E i \in MsgIds : CreateDone(i)
  \/ ReloadAgain
  \/ ReloadAgainDone
  \/ \E i \in MsgIds : TimerFire(i)
  \/ \E i \in MsgIds : OrphanFire(i)
  \/ \E i \in MsgIds : FireNoToken(i)
  \/ \E i \in MsgIds : FireNeedRefresh(i)
  \/ \E i \in MsgIds : FireTokenPost(i)
  \/ \E i \in MsgIds : FireRefRead(i)
  \/ \E i \in MsgIds, r \in Rotations : FireRefOk(i, r)
  \/ \E i \in MsgIds : FireRefFail(i)
  \/ \E i \in MsgIds : FireRefSaved(i)
  \/ \E i \in MsgIds : FirePostOk(i)
  \/ \E i \in MsgIds : FirePostFail(i)
  \/ \E i \in MsgIds : FireOkRead(i)
  \/ \E i \in MsgIds : FireOkDone(i)
  \/ \E i \in MsgIds : FireErrRead(i)
  \/ \E i \in MsgIds : FireErrDone(i)

ReloadTwiceSpec == Init /\ [][ReloadTwiceNext]_vars

\* ---------------------------------------------------------------- isTokenExpired on its own
\* the instants tried, in milliseconds, by half seconds
Instants == {k * (MsPerSecond \div 2) : k \in 0..(2 * MaxSeconds)}

\* the credentials tried: expires_in unset, 0 or a number of seconds
ExpiryTokens ==
  [access_token : {1}, refresh_token : {0, 1},
   expires_in : {Undefined} \cup (0..MaxExpiresIn), obtained_at : Instants]

ExpiryInit ==
  /\ InitStore
  /\ expiry \in [token : ExpiryTokens, nowMs : Instants, called : {FALSE}, result : {FALSE}]

\* isTokenExpired(token) is called when Date.now() is expiry.nowMs
ExpiryCall ==
  /\ ~expiry.called
  /\ expiry' = [expiry EXCEPT !.called = TRUE,
                              !.result = isTokenExpired(expiry.token, expiry.nowMs)]
  /\ UNCHANGED <<now, restarts, file, writeQ, mem, provider, sends, cancelOk, missed,
                 startedAt>>

ExpiryNext == ExpiryCall

ExpirySpec == ExpiryInit /\ [][ExpiryNext]_vars

\* ---------------------------------------------------------------- properties
\* chat.postMessage succeeded for message i in this process
Delivered(i) ==
  \/ fire[i].pc \in {"okRead", "okWrite"}
  \/ fire[i].pc = "done" /\ fire[i].err = "none"

\* the callback of message i has not reached its send yet
BeforeSend(i) == fire[i].pc \in {"tokRead", "refRead", "refPost", "refWrite"}

\* a cancel of message i has set it canceled and awaits its write
CancelPending(i) == \E s \in CancelSlots : cancel[s].pc = "write" /\ cancel[s].id = i

\* the step in which reloadSchedules returns
ReloadReturns == mainPc = "reloadWrite" /\ mainPc' = "listening"

\* a step in which slot s handles a cancel request up to its answer or its saveDB
CancelHandled(s) ==
  /\ cancel[s].pc # "write"
  /\ cancel'[s] # cancel[s]
  /\ cancel'[s].pc \in {"write", "done"}

\* the persisted records with this id and tenant
RecordsOf(id, u) ==
  { k \in DOMAIN file.scheduledMessages :
      file.scheduledMessages[k].id = id /\ file.scheduledMessages[k].userId = u }

\* C1: the persisted status of a message, while it has a record, changes
\* only from scheduled to one of sent, canceled, failed; a terminal status
\* never changes again.
C1_StatusMonotone ==
  [][\A i \in MsgIds :
       (/\ Persisted(i).status # "absent" /\ Persisted(i)'.status # "absent"
        /\ Persisted(i)'.status # Persisted(i).status)
       => Persisted(i).status = "scheduled" /\ Terminal(Persisted(i)'.status)]_vars

\* C2: a message whose cancel was accepted while it was scheduled is
\* persisted as canceled from then on and chat.postMessage is never
\* submitted for it; no message is both delivered and canceled.
C2_CancelWins ==
  \A i \in MsgIds :
    /\ cancelOk[i] => Persisted(i).status = "canceled" /\ sends[i] = <<>>
    /\ ~(Delivered(i) /\ Persisted(i).status = "canceled")

\* C3: chat.postMessage is submitted at most once for every message, over
\* all process lifetimes.
C3_AtMostOneSend == \A i \in MsgIds : Len(sends[i]) <= 1

\* a message was sent once, the send failed, and the process has since been
\* restarted and has reconciled
C3_Witness ==
  \E i \in MsgIds :
    /\ Len(sends[i]) = 1
    /\ Persisted(i).status = "failed" /\ Persisted(i).error = "provider error"
    /\ restarts >= 1 /\ mainPc = "listening"

\* C4: a message whose sendAt was in the future when its create request was
\* handled, which was acknowledged and not canceled in the running process,
\* is on its way to its one send (its timer is pending, or its callback has
\* not reached the send yet) or has been sent; no send is before sendAt.
C4_FutureMessageSent ==
  \A i \in MsgIds :
    /\ (create[i].pc = "done" /\ create[i].future /\ ~cancelOk[i] /\ ~CancelPending(i))
         => (scheduledJobs[i].pending \/ BeforeSend(i) \/ sends[i] # <<>>)
    /\ Persisted(i).status # "absent"
         => \A n \in DOMAIN sends[i] : sends[i][n] >= Persisted(i).sendAt

\* C5: when reloadSchedules returns, every record that was persisted as
\* scheduled with a sendAt not after the process start is persisted as
\* failed with the error "Missed scheduled time"; and once a message has
\* been marked missed, chat.postMessage is never submitted for it.
C5_MissedFailed ==
  [][/\ ReloadReturns =>
          \A k \in DOMAIN file.scheduledMessages :
            (file.scheduledMessages[k].status = "scheduled"
               /\ file.scheduledMessages[k].sendAt <= startedAt)
            => /\ k \in DOMAIN file'.scheduledMessages
               /\ file'.scheduledMessages[k] =
                    [file.scheduledMessages[k] EXCEPT !.status = "failed",
                                                      !.error = "Missed scheduled time"]
     /\ \A i \in MsgIds : missed'[i] >= 0 => Len(sends'[i]) = missed'[i]]_vars

\* a restarted process has reconciled and a message that was due before
\* the start is persisted as failed for having been missed
C5_Witness ==
  \E i \in MsgIds :
    /\ restarts >= 1 /\ mainPc = "listening"
    /\ missed[i] >= 0
    /\ Persisted(i).status = "failed" /\ Persisted(i).error = "Missed scheduled time"
    /\ Persisted(i).sendAt <= startedAt

\* C6: when reloadSchedules returns, every record persisted as scheduled has
\* an entry in the timer map for its sendAt.
C6_ReArmed ==
  [][ReloadReturns =>
       \A k \in DOMAIN file'.scheduledMessages :
         file'.scheduledMessages[k].status = "scheduled" =>
           /\ scheduledJobs'[file'.scheduledMessages[k].id].present
           /\ scheduledJobs'[file'.scheduledMessages[k].id].date =
                file'.scheduledMessages[k].sendAt]_vars

\* C7: a message whose callback has ended is not persisted as scheduled, and
\* one whose callback ended in the catch branch is persisted as failed with
\* an error message.
C7_FailureResolved ==
  \A i \in MsgIds :
    fire[i].pc = "done" =>
      /\ Persisted(i).status # "scheduled"
      /\ fire[i].err # "none" =>
           Persisted(i).status = "failed" /\ Persisted(i).error # "none"

\* C8: the timer map has an entry for a persisted message only while its
\* status is scheduled: none once it is sent, failed or canceled.
C8_TimerOnlyIfScheduled ==
  \A i \in MsgIds : scheduledJobs[i].present => ~Terminal(Persisted(i).status)

\* C9: a cancel request for a record of the requesting tenant whose status
\* is sent, canceled or failed is answered ok at once and leaves the file,
\* the outstanding writes and the timer map as they were.
C9_CancelTerminalNoop ==
  [][\A s \in CancelSlots :
       (CancelHandled(s)
          /\ \E k \in RecordsOf(cancel'[s].id, cancel'[s].userId) :
               Terminal(file.scheduledMessages[k].status))
       => /\ cancel'[s].pc = "done" /\ cancel'[s].res = "ok"
          /\ file' = file /\ writeQ' = writeQ /\ scheduledJobs' = scheduledJobs]_vars

\* a cancel of a terminal message was answered ok without any cancel of it
\* having been accepted
C9_Witness ==
  \E s \in CancelSlots :
    /\ cancel[s].pc = "done" /\ cancel[s].res = "ok"
    /\ ~cancelOk[cancel[s].id]
    /\ \E k \in RecordsOf(cancel[s].id, cancel[s].userId) :
         file.scheduledMessages[k].status = "sent"

\* C10: a cancel request for which no record has both the id and the tenant
\* is answered not-found and leaves the file, the outstanding writes and the
\* timer map as they were.
C10_CancelNotFound ==
  [][\A s \in CancelSlots :
       (CancelHandled(s) /\ RecordsOf(cancel'[s].id, cancel'[s].userId) = {})
       => /\ cancel'[s].pc = "done" /\ cancel'[s].res = "notfound"
          /\ file' = file /\ writeQ' = writeQ /\ scheduledJobs' = scheduledJobs]_vars

\* another tenant's cancel was answered not-found; the message is still
\* scheduled and its timer pending
C10_Witness ==
  \E s \in CancelSlots :
    /\ cancel[s].pc = "done" /\ cancel[s].res = "notfound"
    /\ Persisted(cancel[s].id).status = "scheduled"
    /\ Persisted(cancel[s].id).userId # cancel[s].userId
    /\ scheduledJobs[cancel[s].id].pending

\* C11: a message whose create request was acknowledged in the running
\* process has a record in the persisted collection.
C11_NoLostRecord ==
  \A i \in MsgIds : create[i].pc = "done" => Persisted(i).status # "absent"

\* the step in which the provider answers the refresh exchange of callback i with ok
RefreshAnswered(i) == fire[i].pc = "refPost" /\ fire'[i].pc = "refWrite"

\* the step in which getValidAccessToken returns a refreshed token to callback i
RefreshReturns(i) == fire[i].pc = "refWrite" /\ fire'[i].pc = "post"

\* C12: a call of getValidAccessToken that refreshes submits exactly one
\* exchange; the new credential carries the access token the provider issued
\* and the time of the answer as obtained_at; when the call returns, that
\* credential is the persisted one and its access token is the one returned.
C12_OneRefresh ==
  [][\A i \in MsgIds :
       /\ RefreshAnswered(i) =>
            /\ fire'[i].tok.access_token = nextTok
            /\ fire'[i].tok.access_token # fire[i].tok.access_token
            /\ fire'[i].tok.obtained_at = DateNow(now)
            /\ data'.tokens[Owner(i)] = fire'[i].tok
       /\ RefreshReturns(i) =>
            /\ fire[i].exch = 1
            /\ file'.tokens[Owner(i)] = fire[i].tok
            /\ fire'[i].bearer = fire[i].tok.access_token]_vars

\* a send goes out with a refreshed access token, which is the persisted
\* one, obtained at the time of the refresh
C12_Witness ==
  \E i \in MsgIds :
    /\ fire[i].pc = "post"
    /\ fire[i].bearer = file.tokens[Owner(i)].access_token
    /\ fire[i].bearer # 1
    /\ file.tokens[Owner(i)].obtained_at = DateNow(now) /\ now > 0

\* C13: no two callbacks of one tenant have a refresh exchange in flight
\* together.
C13_RefreshSerialized ==
  \A i, j \in MsgIds :
    (i # j /\ Owner(i) = Owner(j)) => ~(fire[i].pc = "refPost" /\ fire[j].pc = "refPost")

\* C14: isTokenExpired returns false when expires_in is not set, and
\* otherwise true exactly when the whole seconds from obtained_at to now are
\* at least expires_in, expires_in = 0 included.
C14_IsTokenExpired ==
  expiry.called =>
    expiry.result =
      IF expiry.token.expires_in = Undefined THEN FALSE
      ELSE (expiry.nowMs - expiry.token.obtained_at) \div MsPerSecond
             >= expiry.token.expires_in

\* C15: once the callback of a message has ended, by the success path or by
\* the catch branch, the timer map has no entry for the message.
C15_TimerRemoved ==
  \A i \in MsgIds : fire[i].pc = "done" => ~scheduledJobs[i].present

\* the jobs of message i whose invocation is pending
LiveTimers(i) ==
  scheduledJobs[i].orphans + (IF scheduledJobs[i].present /\ scheduledJobs[i].pending THEN 1 ELSE 0)

\* C16: with reloadSchedules run a second time in one process lifetime, a
\* message has at most one live timer and is sent at most once.
C16_ReloadIdempotent ==
  \A i \in MsgIds : LiveTimers(i) <= 1 /\ Len(sends[i]) <= 1

\* the credential has an expires_in that has run out at the given second
RunOut(token, clock) ==
  token.expires_in > 0 /\ DateNow(clock) - token.obtained_at >= token.expires_in * MsPerSecond

\* the step in which getValidAccessToken, called by callback i, has read the store
TokenRead(i) ==
  fire[i].pc = "tokRead" /\ fire'[i].pc # "tokRead" /\ restarts' = restarts

\* C17: getValidAccessToken for a tenant whose stored credential has run out
\* and has no refresh token submits no exchange, leaves the store as it is
\* and returns the stored access token.
C17_ExpiredNoRefreshToken ==
  [][\A i \in MsgIds :
       (/\ TokenRead(i)
        /\ file.tokens[Owner(i)].access_token # 0
        /\ file.tokens[Owner(i)].refresh_token = 0
        /\ RunOut(file.tokens[Owner(i)], now))
       => /\ fire'[i].pc = "post" /\ fire'[i].exch = 0
          /\ fire'[i].bearer = file.tokens[Owner(i)].access_token
          /\ file' = file /\ writeQ' = writeQ /\ data' = file]_vars

\* a send goes out with the stored access token of a credential that has
\* run out and has no refresh token
C17_Witness ==
  \E i \in MsgIds :
    /\ fire[i].pc = "post" /\ fire[i].exch = 0
    /\ file.tokens[Owner(i)].refresh_token = 0
    /\ RunOut(file.tokens[Owner(i)], now)
    /\ fire[i].bearer = file.tokens[Owner(i)].access_token /\ fire[i].bearer # 0

\* C18: while the process serves requests, every message persisted as
\* scheduled whose callback is not running has a pending job in the timer map.
C18_ScheduledHasTimer ==
  \A i \in MsgIds :
    (/\ mainPc = "listening"
     /\ Persisted(i).status = "scheduled"
     /\ fire[i].pc \in {"idle", "done"})
    => scheduledJobs[i].present /\ scheduledJobs[i].pending

\* C19: when the callback of a message ends after no access token could be
\* obtained for its tenant, chat.postMessage has not been submitted for the
\* message and the message is persisted as failed.
C19_NoTokenFails ==
  [][\A i \in MsgIds :
       (fire[i].err = "No valid token" /\ fire[i].pc # "done" /\ fire'[i].pc = "done")
       => sends'[i] = <<>> /\ Persisted(i)'.status = "failed"]_vars

\* the step in which the refresh exchange of callback i ends without a new token
RefreshFails(i) ==
  fire[i].pc = "refPost" /\ fire'[i].pc \notin {"refPost", "refWrite"} /\ restarts' = restarts

\* C20: a refresh exchange that fails changes no credential, in db.data or in
\* db.json, and calls no save; it was the only exchange of the call, and the
\* call goes on to the catch branch without another.
C20_FailedRefreshKeeps ==
  [][\A i \in MsgIds :
       RefreshFails(i)
       => /\ data'.tokens = data.tokens /\ file'.tokens = file.tokens
          /\ writeQ' = writeQ
          /\ fire[i].exch = 1
          /\ fire'[i].pc = "errRead"]_vars

\* a refresh has failed and the tenant's persisted credential is the one it
\* had before, refresh token included
C20_Witness ==
  \E i \in MsgIds :
    /\ fire[i].pc = "errRead" /\ fire[i].err = "No valid token"
    /\ file.tokens[Owner(i)] =
         [access_token |-> 1, refresh_token |-> 1, expires_in |-> 1, obtained_at |-> 0]
    /\ data.tokens[Owner(i)] = file.tokens[Owner(i)]

====
